---- MODULE Spec2Model ----
(***************************************************************************)
(* State-machine model of shutil_cp.py: the date-window file copier with   *)
(* resume ledger, optional SHA256 verification and final ZIP archive.      *)
(*                                                                         *)
(* A behaviour is a sequence of runs of the script (one process each) over *)
(* one source tree and one target root.  Between runs only the file        *)
(* system survives: the destination files, the resume state file and the   *)
(* archive.  Every I/O call of the script is an action whose outcome       *)
(* (success, OSError) is chosen by the environment.                        *)
(*                                                                         *)
(* Time is counted in minutes; a datetime is an integer number of minutes  *)
(* and a year has 365 days (the calendar is abstracted, comparisons and    *)
(* the .year attribute are kept).  A relative path is an integer code      *)
(* whose order is the lexicographic order of the path strings.             *)
(***************************************************************************)
EXTENDS Integers, Sequences, FiniteSets, TLC

\* ---------------------------------------------------------------- bounds
\* number of regular files in the source tree
NumFiles == 2
\* number of runs of the script in one behaviour
MaxRuns == 2

NotExited == 0 - 1

\* ------------------------------------------------------ program constants
DEFAULT_CUTOFF_DAYS == 7
SkewMinutes == 5
MinYear == 2000
ExitInterrupted == 130

MinPerDay == 24 * 60
MinPerYear == 365 * MinPerDay
Year(t) == t \div MinPerYear
Days(n) == n * MinPerDay
\* first instant of a year: what strptime yields when only %Y is parsed
YearStart(y) == y * MinPerYear

Range(s) == {s[i] : i \in DOMAIN s}

\* ------------------------------------------------------------ environment
Paths == 1..NumFiles
NoFile == 0
NoTime == 0

\* the clock when the first run starts, and the minutes that pass between
\* the start of one run and the start of the next
Now0 == YearStart(2025) + Days(200)
ClockStep == 2 * SkewMinutes
Clocks == {Now0 + k * ClockStep : k \in 0..MaxRuns}

\* the instants the stat fields of the source files are drawn from: ten
\* days old, exactly DEFAULT_CUTOFF_DAYS old, and the first run's start
TimeSamples == << Now0 - Days(10), Now0 - Days(DEFAULT_CUTOFF_DAYS), Now0 >>
Times == Range(TimeSamples)
OtherTime(t) ==
  LET i == CHOOSE j \in DOMAIN TimeSamples : TimeSamples[j] = t
  IN  TimeSamples[(i % Len(TimeSamples)) + 1]

\* os.stat results of a source file: all three fields equal, or birth and
\* change time equal and the modification time different
StatSamples ==
  {[st_mtime |-> t, st_ctime |-> t, st_birthtime |-> t] : t \in Times}
  \cup
  {[st_mtime |-> OtherTime(t), st_ctime |-> t, st_birthtime |-> t] : t \in Times}

\* hasattr(stat, "st_birthtime") and os.name
Platforms == [has_birthtime : BOOLEAN, os_name : {"nt", "posix"}]

\* content of a destination file
DstContents == {"absent", "partial", "data", "corrupt"}
SrcContent == "data"

\* ---------------------------------------------------- state file contents
StateDoc(kind, items) == [kind |-> kind, copied |-> items]
Absent == StateDoc("absent", <<>>)
\* zero bytes: the file just after open(..., "w")
EmptyFile == StateDoc("empty", <<>>)
\* a prefix of a JSON document: a write that stopped half way
PartialFile == StateDoc("partial", <<>>)

RECURSIVE sorted(_)
sorted(S) ==
  IF S = {} THEN <<>>
  ELSE LET m == CHOOSE x \in S : \A y \in S : x <= y
       IN  <<m>> \o sorted(S \ {m})

IsSorted(s) == \A i, j \in DOMAIN s : i < j => s[i] < s[j]

\* json.dump({"copied": sorted(copied_paths)}, f, indent=2)
\* a writer that lists the paths in descending order
json_dump_descending(copied_paths) ==
  LET s == sorted(copied_paths)
  IN  StateDoc("object", [i \in 1..Len(s) |-> s[Len(s) + 1 - i]])

json_dump(copied_paths) == StateDoc("object", sorted(copied_paths))

\* state files found under the target root before the first run
InitialStateFiles ==
  { Absent,
    StateDoc("garbage", <<>>),
    StateDoc("undecodable", <<>>),
    StateDoc("array", <<>>),
    StateDoc("no_key", <<>>),
    StateDoc("copied_null", <<>>),
    StateDoc("copied_string", <<NoFile>>) }

\* load_state: io_ok is whether open()/read() succeed.  The result says
\* whether an exception left the function, whether the warning was printed
\* and the set returned.
LoadResult(raised, warned, paths) ==
  [raised |-> raised, warned |-> warned, paths |-> paths]

\* a loader that never finds a ledger
load_state_forgets(sf, io_ok) == LoadResult(FALSE, FALSE, {})

load_state(sf, io_ok) ==
  IF sf.kind = "absent" THEN LoadResult(FALSE, FALSE, {})
  ELSE IF ~io_ok THEN LoadResult(FALSE, TRUE, {})
  ELSE IF sf.kind \in {"empty", "partial", "garbage"}
       THEN LoadResult(FALSE, TRUE, {})
  ELSE IF sf.kind = "undecodable" THEN LoadResult(TRUE, FALSE, {})
  ELSE IF sf.kind = "array" THEN LoadResult(TRUE, FALSE, {})
  ELSE IF sf.kind = "no_key" THEN LoadResult(FALSE, FALSE, {})
  ELSE IF sf.kind = "copied_null" THEN LoadResult(TRUE, FALSE, {})
  ELSE LoadResult(FALSE, FALSE, Range(sf.copied))

\* ------------------------------------------------------------ verification
\* compute_sha256: "" when the file cannot be read, else the digest, which
\* is modelled as the content itself (no collisions)
compute_sha256(content, io_ok) ==
  IF io_ok /\ content # "absent" THEN <<"sha256", content>> ELSE ""

\* a verification that accepts every copy
verify_copy_accepts(src_ok, dst_content, dst_ok) == TRUE

verify_copy(src_ok, dst_content, dst_ok) ==
  LET src_hash == compute_sha256(SrcContent, src_ok)
      dst_hash == compute_sha256(dst_content, dst_ok)
  IN  IF src_hash = "" \/ dst_hash = "" THEN FALSE
      ELSE IF src_hash # dst_hash THEN FALSE
      ELSE TRUE

\* -------------------------------------------------------------- validation
Valid(v) == [ok |-> TRUE, value |-> v]
Invalid == [ok |-> FALSE, value |-> 0]

validate_directory(status) ==
  IF status = "missing" THEN Invalid
  ELSE IF status = "not_dir" THEN Invalid
  ELSE IF status = "unreadable" THEN Invalid
  ELSE Valid(0)

validate_positive_int(value) ==
  IF value <= 0 THEN Invalid ELSE Valid(value)

\* a date argument: its four leading digits and the text after them; the
\* argument left out (None) is falsy like the empty string
DateArg(y, rest) == [year |-> y, rest |-> rest]
NoDate == DateArg(0, "")
NoRange == <<NoDate, NoDate>>
DateFormatTail == "-MM-DD HH:MM:SS"
\* strptime(value, "%Y-MM-DD HH:MM:SS"): only %Y is a directive, the rest
\* of the format is literal text
validate_datetime(value) ==
  IF value.rest = DateFormatTail THEN Valid(YearStart(value.year)) ELSE Invalid

\* ---------------------------------------------------------- core functions
\* a resolver that always trusts the modification time
get_timestamp_mtime(plat, st) == st.st_mtime

get_timestamp(plat, st) ==
  IF plat.has_birthtime THEN st.st_birthtime
  ELSE IF plat.os_name = "nt" THEN st.st_ctime
  ELSE st.st_mtime

\* a check that lets timestamps ahead of the clock pass
is_suspicious_timestamp_past_only(file_time, plat, st, clock) ==
  LET times == {st.st_mtime, st.st_ctime}
               \cup (IF plat.has_birthtime THEN {st.st_birthtime} ELSE {})
  IN  Cardinality(times) = 1 \/ Year(file_time) < MinYear

is_suspicious_timestamp(file_time, plat, st, clock) ==
  IF file_time > clock + SkewMinutes THEN TRUE
  ELSE LET times == {st.st_mtime, st.st_ctime}
                    \cup (IF plat.has_birthtime THEN {st.st_birthtime} ELSE {})
       IN  IF Cardinality(times) = 1 THEN TRUE
           ELSE IF Year(file_time) < MinYear \/ Year(file_time) > Year(clock) + 1
                THEN TRUE
           ELSE FALSE

\* window tests with the upper bound dropped, and with both bounds exclusive
InWindow_NoUpper(t, lo, hi) == lo <= t
InWindow_Exclusive(t, lo, hi) == lo < t /\ t < hi

InWindow(t, lo, hi) == lo <= t /\ t <= hi


\* ------------------------------------------------------------------- state
VARIABLES
  platform,         \* what os.stat exposes on this host
  srcStat,          \* source tree: path -> stat record
  dst,              \* target root: path -> content of the mirrored file
  stateFile,        \* content of <target>/.copy_state.json
  archive,          \* target_archive.zip: its entries, or NoArchive
  now,              \* the clock read by datetime.now() in the current run
  run,              \* number of runs started so far
  pc,               \* position of the running process, "idle" when none
  exit_code,        \* exit status of the last process, NotExited while running
  resume, verify,   \* the flags of main()
  start_dt, end_dt, \* the time window of main()
  copied_paths, copied_count, verified_count, suspicious_count,
  todo,             \* files source_path.rglob("*") has still to yield
  cur,              \* file_path of the current iteration, as rel_path_str
  file_time,        \* file_time of the current iteration
  reported,         \* the summary lines after "Archive created" were printed
  copy_log,         \* the paths of the "Copied (n): ..." lines of this run
  faults,           \* a step of this run took its error branch
  fresh,            \* the target root was empty when this run started
  prev,             \* how the previous run ended, and the target root it left
  cli_range         \* args.start, args.end as the current or the last run
                    \* read them at lines 266-269, NoRange if it did not

fs == <<platform, srcStat, dst, stateFile, archive>>
flags == <<resume, verify, start_dt, end_dt>>
counters == <<copied_count, verified_count, suspicious_count>>
vars == <<platform, srcStat, dst, stateFile, archive, now, run, pc, exit_code,
          resume, verify, start_dt, end_dt, copied_paths, copied_count,
          verified_count, suspicious_count, todo, cur, file_time, reported,
          copy_log, faults, fresh, prev, cli_range>>

\* the step takes its error branch / runs without error
Fault == faults' = TRUE
NoFault == UNCHANGED faults

NoArchive == [built |-> FALSE, files |-> {}, state_file |-> FALSE]

\* the entries shutil.make_archive finds under the target root
TargetEntries ==
  [built |-> TRUE,
   files |-> {f \in Paths : dst[f] # "absent"},
   state_file |-> stateFile.kind # "absent"]

\* What is remembered of a run once its process has ended (a history
\* variable: no action reads it).  For a run that returned from main() with
\* --resume: whether every step went without error and, if so, its window.
\* For an interrupted run: the files it had copied.  For every run: the exit
\* status and the target root as the run left it.  The history is kept only
\* in the behaviours whose initial state asks for it.
RunSummary(code, was_resume, was_clean, lo, hi, log) ==
  [exit |-> code, resume |-> was_resume, clean |-> was_clean,
   start_dt |-> lo, end_dt |-> hi, copy_log |-> log,
   dst |-> dst, stateFile |-> stateFile]

NoHistory ==
  [exit |-> NotExited - 1, resume |-> FALSE, clean |-> FALSE,
   start_dt |-> NoTime, end_dt |-> NoTime, copy_log |-> {},
   dst |-> [f \in Paths |-> "absent"], stateFile |-> Absent]

Summary(code, flt) ==
  IF prev = NoHistory THEN prev
  ELSE IF code = 0 /\ pc = "archive" /\ resume
  THEN RunSummary(0, TRUE, ~flt,
                  IF flt THEN NoTime ELSE start_dt,
                  IF flt THEN NoTime ELSE end_dt, {})
  ELSE IF code = ExitInterrupted /\ pc \notin {"idle", "load"}
  THEN RunSummary(code, FALSE, FALSE, NoTime, NoTime, copy_log)
  ELSE RunSummary(code, FALSE, FALSE, NoTime, NoTime, {})

\* Before the first run the target root is empty, or holds nothing but a
\* state file some other program left there.  The source trees with every
\* mix of stat records are explored on the host where os.stat has
\* st_birthtime; the other hosts and the left-over state files over a
\* source tree whose files were all written just before the first run.
MacOS == [has_birthtime |-> TRUE, os_name |-> "posix"]
FreshStat == [st_mtime |-> Now0, st_ctime |-> Now0 - 1, st_birthtime |-> Now0 - 1]
OldStat ==
  [st_mtime |-> Now0 - Days(10), st_ctime |-> Now0 - Days(10),
   st_birthtime |-> Now0 - Days(10)]

InitRun ==
  /\ dst = [f \in Paths |-> "absent"]
  /\ archive = NoArchive
  /\ now = Now0
  /\ run = 0
  /\ pc = "idle"
  /\ exit_code = NotExited
  /\ resume = FALSE /\ verify = FALSE
  /\ start_dt = NoTime /\ end_dt = NoTime
  /\ copied_paths = {} /\ copied_count = 0
  /\ verified_count = 0 /\ suspicious_count = 0
  /\ todo = {} /\ cur = NoFile /\ file_time = NoTime
  /\ reported = FALSE /\ copy_log = {} /\ faults = FALSE
  /\ fresh = FALSE
  /\ cli_range = NoRange

Init ==
  /\ \/ /\ platform = MacOS
        /\ srcStat \in [Paths -> StatSamples]
        /\ stateFile = Absent
     \/ /\ platform \in Platforms
        /\ srcStat = [f \in Paths |-> FreshStat]
        /\ stateFile = Absent
     \/ /\ platform = MacOS
        /\ srcStat = [f \in Paths |-> FreshStat]
        /\ stateFile \in InitialStateFiles
  /\ InitRun
  /\ prev = NoHistory

\* behaviours that keep the history of their runs: an empty target root and
\* source files ten days old or written just before the first run
InitResume ==
  /\ platform = MacOS
  /\ srcStat \in [Paths -> {FreshStat, OldStat}]
  /\ stateFile = Absent
  /\ InitRun
  /\ prev = RunSummary(NotExited, FALSE, FALSE, NoTime, NoTime, {})

\* the process ends without reaching the end of main(): its memory is gone
Exit(code) ==
  /\ pc' = "idle"
  /\ exit_code' = code
  /\ prev' = Summary(code, faults)
  /\ resume' = FALSE /\ verify' = FALSE
  /\ start_dt' = NoTime /\ end_dt' = NoTime
  /\ copied_paths' = {} /\ copied_count' = 0
  /\ verified_count' = 0 /\ suspicious_count' = 0
  /\ todo' = {} /\ cur' = NoFile /\ file_time' = NoTime
  /\ reported' = FALSE /\ copy_log' = {} /\ faults' = FALSE
  /\ fresh' = FALSE

\* ------------------------------------------------------------ command line
\* --days left out (None) is falsy like --days 0
NoDays == 0
DaysArgs == {NoDays, 0 - 1, 3}
DateArgs ==
  { NoDate,
    DateArg(2025, "-11-01 00:00:00"),
    DateArg(2025, DateFormatTail),
    DateArg(2026, DateFormatTail) }

\* what parser.parse_args() returns
ParsedArgs ==
  [days : DaysArgs, start : DateArgs, end : DateArgs,
   resume : BOOLEAN, verify : BOOLEAN]
\* the Namespace built when Jupyter is detected
JupyterArgs ==
  [days |-> NoDays, start |-> NoDate, end |-> NoDate,
   resume |-> FALSE, verify |-> FALSE]

\* lines 262-297: the window, or a fatal error
ResolveWindow(args, clock) ==
  IF args.start # NoDate /\ args.end # NoDate
  THEN LET s == validate_datetime(args.start)
           e == validate_datetime(args.end)
       IN  IF ~s.ok \/ ~e.ok THEN Invalid
           ELSE IF s.value > e.value THEN Invalid
           ELSE Valid(<<s.value, e.value>>)
  ELSE LET given == IF args.days = NoDays
                    THEN DEFAULT_CUTOFF_DAYS ELSE args.days
           d == validate_positive_int(given)
       IN  IF ~d.ok THEN Invalid
           ELSE Valid(<<clock - Days(d.value), clock>>)

\* what lines 230-313 come to for one command line and one environment:
\* the exit status when main() ends there, else the flags and the window
SetupResult(code, args, window, read_range) ==
  [exit |-> code,
   range |-> IF read_range /\ args.start # NoDate /\ args.end # NoDate
             THEN <<args.start, args.end>> ELSE NoRange,
   resume |-> IF code = NotExited THEN args.resume ELSE FALSE,
   verify |-> IF code = NotExited THEN args.verify ELSE FALSE,
   start_dt |-> IF code = NotExited THEN window.value[1] ELSE NoTime,
   end_dt |-> IF code = NotExited THEN window.value[2] ELSE NoTime]

SetupOutcome(argv, parsed, src_status, mk_ok, clock) ==
  LET args == IF argv = "jupyter" THEN JupyterArgs ELSE parsed
      window == ResolveWindow(args, clock)
  IN  IF argv = "no_args" THEN SetupResult(1, args, window, FALSE)
      ELSE IF argv = "parse_error" THEN SetupResult(0, args, window, FALSE)
      ELSE IF ~validate_directory(src_status).ok
           THEN SetupResult(1, args, window, FALSE)
      ELSE IF ~window.ok THEN SetupResult(1, args, window, TRUE)
      ELSE IF ~mk_ok THEN SetupResult(1, args, window, TRUE)
      ELSE SetupResult(NotExited, args, window, TRUE)

\* every way lines 230-313 can end, by the clock at the start of the run
SetupOutcomes ==
  [clock \in Clocks |->
    { SetupOutcome(argv, parsed, src_status, mk_ok, clock) :
        argv \in {"jupyter", "no_args", "parse_error", "parsed"},
        parsed \in ParsedArgs,
        src_status \in {"ok", "missing", "not_dir", "unreadable"},
        mk_ok \in BOOLEAN }]

\* main(), lines 230-313: arguments, validation, target directory
Setup ==
  /\ pc = "idle"
  /\ run < MaxRuns
  /\ run' = run + 1
  /\ UNCHANGED fs
  /\ now' = IF run = 0 THEN Now0 ELSE now + ClockStep
  /\ \E o \in SetupOutcomes[now'] :
       /\ cli_range' = o.range
       /\ IF o.exit # NotExited THEN Exit(o.exit)
          ELSE /\ pc' = "load"
               /\ exit_code' = NotExited
               /\ resume' = o.resume
               /\ verify' = o.verify
               /\ start_dt' = o.start_dt
               /\ end_dt' = o.end_dt
               /\ copied_paths' = {} /\ copied_count' = 0
               /\ verified_count' = 0 /\ suspicious_count' = 0
               /\ todo' = {} /\ cur' = NoFile /\ file_time' = NoTime
               /\ reported' = FALSE /\ copy_log' = {} /\ faults' = FALSE
               /\ fresh' = (stateFile = Absent /\ \A f \in Paths : dst[f] = "absent")
               /\ UNCHANGED prev

\* a start of the scan that loads the ledger whatever --resume says
LoadState_IgnoresFlag ==
  /\ pc = "load"
  /\ UNCHANGED <<fs, now, run, cli_range, flags>>
  /\ \E io_ok \in BOOLEAN :
       LET r == load_state(stateFile, io_ok)
       IN  /\ io_ok \/ (resume /\ stateFile # Absent)
           /\ IF r.raised THEN Exit(1)
              ELSE
                /\ pc' = "scan"
                /\ copied_paths' = r.paths
                /\ copied_count' = Cardinality(r.paths)
                /\ verified_count' = 0 /\ suspicious_count' = 0
                /\ todo' = Paths
                /\ faults' = r.warned
                /\ UNCHANGED <<exit_code, cur, file_time, reported, copy_log,
                               fresh, prev>>

\* main(), lines 316-322: load the ledger, zero the counters, start the scan
LoadState ==
  /\ pc = "load"
  /\ UNCHANGED <<fs, now, run, cli_range, flags>>
  /\ \E io_ok \in BOOLEAN :
       LET r == IF resume THEN load_state(stateFile, io_ok)
                ELSE LoadResult(FALSE, FALSE, {})
       IN  /\ io_ok \/ (resume /\ stateFile # Absent)
           /\ IF r.raised THEN Exit(1)
              ELSE
                /\ pc' = "scan"
                /\ copied_paths' = r.paths
                /\ copied_count' = Cardinality(r.paths)
                /\ verified_count' = 0 /\ suspicious_count' = 0
                /\ todo' = Paths
                /\ faults' = r.warned
                /\ UNCHANGED <<exit_code, cur, file_time, reported, copy_log,
                               fresh, prev>>


\* ---------------------------------------------------------- the scan loop
\* leave the current iteration: continue with the next file
NextIteration ==
  /\ pc' = "scan" /\ cur' = NoFile /\ file_time' = NoTime

\* lines 324-334: the next file of the scan; one already in the ledger is
\* skipped at once; get_timestamp returns None when os.stat fails
ScanNext ==
  /\ pc = "scan"
  /\ todo # {}
  /\ \E f \in todo, stat_ok \in BOOLEAN :
       /\ todo' = todo \ {f}
       /\ IF resume /\ f \in copied_paths
          THEN stat_ok /\ NoFault /\ UNCHANGED <<pc, cur, file_time>>
          ELSE IF stat_ok
               THEN /\ pc' = "suspicious" /\ cur' = f
                    /\ file_time' = get_timestamp(platform, srcStat[f])
                    /\ NoFault
               ELSE NextIteration /\ Fault
  /\ UNCHANGED <<fs, now, run, cli_range, exit_code, flags, copied_paths, counters,
                 reported, copy_log, fresh, prev>>

\* a check that counts a suspicious file only if it is inside the window
CheckSuspicious_CountsInWindow ==
  /\ pc = "suspicious"
  /\ UNCHANGED <<fs, now, run, cli_range>>
  /\ \E stat_ok \in BOOLEAN, mk_ok \in BOOLEAN :
       IF ~stat_ok
       THEN mk_ok /\ Exit(1)
       ELSE /\ suspicious_count' =
                 IF /\ is_suspicious_timestamp(file_time, platform, srcStat[cur], now)
                    /\ InWindow(file_time, start_dt, end_dt)
                 THEN suspicious_count + 1 ELSE suspicious_count
            /\ IF ~InWindow(file_time, start_dt, end_dt)
               THEN mk_ok /\ NextIteration /\ NoFault
               ELSE IF mk_ok
                    THEN pc' = "copy" /\ NoFault /\ UNCHANGED <<cur, file_time>>
                    ELSE NextIteration /\ Fault
            /\ UNCHANGED <<exit_code, flags, copied_paths, copied_count,
                           verified_count, todo, reported, copy_log, fresh, prev>>

\* lines 336-347: is_suspicious_timestamp (its own os.stat is outside any
\* try: an OSError leaves main), the window test, os.makedirs
CheckSuspicious ==
  /\ pc = "suspicious"
  /\ UNCHANGED <<fs, now, run, cli_range>>
  /\ \E stat_ok \in BOOLEAN, mk_ok \in BOOLEAN :
       IF ~stat_ok
       THEN mk_ok /\ Exit(1)
       ELSE /\ suspicious_count' =
                 IF is_suspicious_timestamp(file_time, platform, srcStat[cur], now)
                 THEN suspicious_count + 1 ELSE suspicious_count
            /\ IF ~InWindow(file_time, start_dt, end_dt)
               THEN mk_ok /\ NextIteration /\ NoFault
               ELSE IF mk_ok
                    THEN pc' = "copy" /\ NoFault /\ UNCHANGED <<cur, file_time>>
                    ELSE NextIteration /\ Fault
            /\ UNCHANGED <<exit_code, flags, copied_paths, copied_count,
                           verified_count, todo, reported, copy_log, fresh, prev>>

\* line 350, first half: shutil.copy2 opens the source and creates (or
\* truncates) the destination
CopyOpen ==
  /\ pc = "copy"
  /\ \E open_ok \in BOOLEAN :
       IF open_ok
       THEN /\ dst' = [dst EXCEPT ![cur] = "partial"]
            /\ pc' = "copying"
            /\ NoFault /\ UNCHANGED <<cur, file_time>>
       ELSE /\ UNCHANGED dst
            /\ NextIteration /\ Fault
  /\ UNCHANGED <<platform, srcStat, stateFile, archive, now, run, cli_range, exit_code,
                 flags, copied_paths, counters, todo, reported, copy_log, fresh, prev>>

\* a copy that counts the file before it knows the copy succeeded
CopyFinish_CountsFailed ==
  /\ pc = "copying"
  /\ \/ /\ dst' = [dst EXCEPT ![cur] = SrcContent]
        /\ copied_count' = copied_count + 1
        /\ copy_log' = copy_log \cup {cur}
        /\ IF verify
           THEN pc' = "verify" /\ UNCHANGED <<cur, file_time>>
           ELSE IF resume
                THEN pc' = "record" /\ UNCHANGED <<cur, file_time>>
                ELSE NextIteration
        /\ NoFault
     \/ /\ \E left \in {"partial", SrcContent} :
             dst' = [dst EXCEPT ![cur] = left]
        /\ NextIteration /\ Fault
        /\ copied_count' = copied_count + 1
        /\ UNCHANGED copy_log
  /\ UNCHANGED <<platform, srcStat, stateFile, archive, now, run, cli_range, exit_code,
                 flags, copied_paths, verified_count, suspicious_count,
                 todo, reported, fresh, prev>>

\* lines 350-352, second half: the content and the metadata are written; on
\* an OSError the handler of line 369 logs and the loop goes on
CopyFinish ==
  /\ pc = "copying"
  /\ \/ /\ dst' = [dst EXCEPT ![cur] = SrcContent]
        /\ copied_count' = copied_count + 1
        /\ copy_log' = copy_log \cup {cur}
        /\ IF verify
           THEN pc' = "verify" /\ UNCHANGED <<cur, file_time>>
           ELSE IF resume
                THEN pc' = "record" /\ UNCHANGED <<cur, file_time>>
                ELSE NextIteration
        /\ NoFault
     \/ /\ \E left \in {"partial", SrcContent} :
             dst' = [dst EXCEPT ![cur] = left]
        /\ NextIteration /\ Fault
        /\ UNCHANGED <<copied_count, copy_log>>
  /\ UNCHANGED <<platform, srcStat, stateFile, archive, now, run, cli_range, exit_code,
                 flags, copied_paths, verified_count, suspicious_count,
                 todo, reported, fresh, prev>>

\* the environment damages the fresh copy before it is verified
CorruptDst ==
  /\ pc = "verify"
  /\ dst[cur] = SrcContent
  /\ dst' = [dst EXCEPT ![cur] = "corrupt"]
  /\ Fault
  /\ UNCHANGED <<platform, srcStat, stateFile, archive, now, run, cli_range, pc,
                 exit_code, flags, copied_paths, counters, todo, cur,
                 file_time, reported, copy_log, fresh, prev>>

\* lines 355-359: verify_copy
VerifyCopy ==
  /\ pc = "verify"
  /\ \E src_ok \in BOOLEAN, dst_ok \in BOOLEAN :
       /\ IF verify_copy(src_ok, dst[cur], dst_ok)
          THEN /\ verified_count' = verified_count + 1
               /\ IF resume
                  THEN pc' = "record" /\ UNCHANGED <<cur, file_time>>
                  ELSE NextIteration
               /\ UNCHANGED faults
          ELSE /\ pc' = "unlink"
               /\ faults' = TRUE
               /\ UNCHANGED <<verified_count, cur, file_time>>
  /\ UNCHANGED <<fs, now, run, cli_range, exit_code, flags, copied_paths, copied_count,
                 suspicious_count, todo, reported, copy_log, fresh, prev>>

\* lines 360-362: remove the corrupt copy and take it out of the count; an
\* OSError of unlink is caught by the handler of line 369
Unlink ==
  /\ pc = "unlink"
  /\ \E unlink_ok \in BOOLEAN :
       IF unlink_ok
       THEN /\ dst' = [dst EXCEPT ![cur] = "absent"]
            /\ copied_count' = copied_count - 1
            /\ NoFault
       ELSE UNCHANGED <<dst, copied_count>> /\ Fault
  /\ NextIteration
  /\ UNCHANGED <<platform, srcStat, stateFile, archive, now, run, cli_range, exit_code,
                 flags, copied_paths, verified_count, suspicious_count,
                 todo, reported, copy_log, fresh, prev>>

\* save_state, line 125: open(state_file, "w") truncates the file; an
\* OSError is logged and save_state returns
SaveOpen(next_pc, after_pc) ==
  \E open_ok \in BOOLEAN :
    IF open_ok
    THEN stateFile' = EmptyFile /\ pc' = next_pc /\ NoFault
    ELSE UNCHANGED stateFile /\ pc' = after_pc /\ Fault

\* lines 365-367: add the path to the ledger and start saving it
Record ==
  /\ pc = "record"
  /\ copied_paths' = copied_paths \cup {cur}
  /\ SaveOpen("save_write", "scan")
  /\ cur' = IF pc' = "scan" THEN NoFile ELSE cur
  /\ file_time' = IF pc' = "scan" THEN NoTime ELSE file_time
  /\ UNCHANGED <<platform, srcStat, dst, archive, now, run, cli_range, exit_code,
                 flags, counters, todo, reported, copy_log, fresh, prev>>

\* what save_state leaves in the file when json.dump completes
\* a save that writes an empty list
save_state_empty(paths) == json_dump({})

save_state(paths) == json_dump(paths)

\* save_state, line 126: json.dump writes the document; an OSError leaves
\* what was written so far
SaveWrite ==
  /\ pc \in {"save_write", "final_write"}
  /\ \/ stateFile' = save_state(copied_paths) /\ NoFault
     \/ stateFile' \in {EmptyFile, PartialFile} /\ Fault
  /\ IF pc = "save_write" THEN NextIteration
     ELSE pc' = "archive" /\ UNCHANGED <<cur, file_time>>
  /\ UNCHANGED <<platform, srcStat, dst, archive, now, run, cli_range, exit_code,
                 flags, copied_paths, counters, todo, reported, copy_log, fresh, prev>>

\* lines 372-374: the scan is over; the final save
ScanEnd ==
  /\ pc = "scan"
  /\ todo = {}
  /\ IF resume /\ copied_paths # {}
     THEN SaveOpen("final_write", "archive")
     ELSE pc' = "archive" /\ UNCHANGED stateFile /\ NoFault
  /\ UNCHANGED <<platform, srcStat, dst, archive, now, run, cli_range, exit_code,
                 flags, copied_paths, counters, todo, cur, file_time,
                 reported, copy_log, fresh, prev>>

\* lines 376-392: shutil.make_archive, then the summary; main returns
Archive ==
  /\ pc = "archive"
  /\ \E zip_ok \in BOOLEAN :
       IF zip_ok
       THEN archive' = TargetEntries /\ reported' = TRUE /\ NoFault
       ELSE UNCHANGED <<archive, reported>> /\ Fault
  /\ pc' = "idle"
  /\ exit_code' = 0
  /\ prev' = Summary(0, faults')
  /\ UNCHANGED <<platform, srcStat, dst, stateFile, now, run, cli_range, flags,
                 copied_paths, counters, todo, cur, file_time, copy_log,
                 fresh>>

\* lines 402-404: KeyboardInterrupt reaches the entry point
Interrupt ==
  /\ pc # "idle"
  /\ UNCHANGED <<fs, now, run, cli_range>>
  /\ Exit(ExitInterrupted)

Next ==
  \/ Setup
  \/ LoadState
  \/ ScanNext
  \/ CheckSuspicious
  \/ CopyOpen
  \/ CopyFinish
  \/ CorruptDst
  \/ VerifyCopy
  \/ Unlink
  \/ Record
  \/ SaveWrite
  \/ ScanEnd
  \/ Archive
  \/ Interrupt

Spec == Init /\ [][Next]_vars

SpecResume == InitResume /\ [][Next]_vars


\* ------------------------------------------------------ the claims' terms
\* the resolved timestamp of a source file
Resolved(f) == get_timestamp(platform, srcStat[f])
\* strictly before start or strictly after end of the current run's window
StrictlyOutside(f) == Resolved(f) < start_dt \/ Resolved(f) > end_dt
\* the source files with start <= t <= end
WindowFiles == {f \in Paths : start_dt <= Resolved(f) /\ Resolved(f) <= end_dt}
\* the paths the state file lists
Ledger(sf) == Range(sf.copied)
\* main() has returned after a run from an empty target root in which no
\* step took its error branch, and the archive was built
CleanFreshDone ==
  pc = "idle" /\ exit_code = 0 /\ reported /\ fresh /\ ~faults

\* ---------------------------------------------------------------- claims
\* C1: in every run, a source file whose resolved timestamp is strictly
\* outside [start, end] and that the target tree does not already contain
\* (no mirrored file, not listed in the state file) stays that way in every
\* step: no entry is created under the target root, it is not added to the
\* copied set or the state file, it gets no "Copied" line, and copied_count
\* does not grow while it is the current file.
Untouched(f) ==
  /\ dst[f] = "absent"
  /\ f \notin copied_paths
  /\ f \notin copy_log
  /\ f \notin Ledger(stateFile)

C1_OutsideWindowNeverCopied ==
  [][\A f \in Paths :
       (pc # "idle" /\ StrictlyOutside(f) /\ Untouched(f))
         => /\ Untouched(f)'
            /\ (pc # "load" /\ cur = f => copied_count' <= copied_count)]_vars

\* a run with --resume has ended normally, having skipped a file older than
\* the window and copied and recorded another
C1_Witness ==
  /\ pc = "idle" /\ exit_code = 0 /\ reported /\ resume
  /\ \E f, g \in Paths :
       /\ Resolved(f) < start_dt /\ Untouched(f)
       /\ g \in copy_log /\ dst[g] = SrcContent /\ g \in Ledger(stateFile)

\* C2 as claimed: after a run without failure from an empty target root the
\* archive holds exactly the files with start <= t <= end, each a faithful
\* copy, plus the state file if resume was enabled, and copied_count is the
\* number of those files.
C2_ArchiveWithStateFileIfResume ==
  CleanFreshDone =>
    /\ archive.files = WindowFiles
    /\ {f \in Paths : dst[f] # "absent"} = WindowFiles
    /\ \A f \in WindowFiles : dst[f] = SrcContent
    /\ copied_count = Cardinality(WindowFiles)
    /\ archive.state_file = resume

\* C2 as amended: the state file is in the archive exactly when resume was
\* enabled and at least one file was copied.
C2_ArchiveIsWindow ==
  CleanFreshDone =>
    /\ archive.files = WindowFiles
    /\ {f \in Paths : dst[f] # "absent"} = WindowFiles
    /\ \A f \in WindowFiles : dst[f] = SrcContent
    /\ copied_count = Cardinality(WindowFiles)
    /\ archive.state_file = (resume /\ WindowFiles # {})

\* such a run with --resume has archived a file stamped exactly start and
\* another stamped exactly end
C2_Witness ==
  /\ CleanFreshDone /\ resume /\ archive.state_file
  /\ \E f, g \in archive.files :
       Resolved(f) = start_dt /\ Resolved(g) = end_dt /\ start_dt < end_dt

\* C3 as claimed: when the processing of a file whose verification failed
\* ends, the destination copy does not exist, copied_count is back to its
\* value before the copy, verified_count is unchanged and the path is
\* neither in the copied set nor in the state file, whatever unlink did.
C3_RollbackWhateverUnlinkDoes ==
  [][(pc = "unlink" /\ pc' = "scan")
       => /\ dst'[cur] = "absent"
          /\ copied_count' = copied_count - 1
          /\ verified_count' = verified_count
          /\ cur \notin copied_paths'
          /\ cur \notin Ledger(stateFile')]_vars

\* C4 and C5 look at a second run when its scan and its last save are done
\* and only the archive step is left; prev describes the run before it.
SecondRunDone == pc = "archive" /\ resume
\* what the second run must leave as the run before it left it
NothingChanged ==
  copy_log = {} /\ dst = prev.dst /\ stateFile = prev.stateFile

OutsidePrevWindow(f) == Resolved(f) < prev.start_dt \/ Resolved(f) > prev.end_dt

C6_StateRoundTrip ==
  [][(pc \in {"save_write", "final_write"} /\ stateFile'.kind = "object")
       => /\ load_state(stateFile', TRUE) = LoadResult(FALSE, FALSE, copied_paths)
          /\ IsSorted(stateFile'.copied)
          /\ Len(stateFile'.copied) = Cardinality(copied_paths)]_vars

\* a state file holding two paths has been written and reads back as the
\* copied set
C6_Witness ==
  /\ pc = "scan" /\ resume
  /\ stateFile.kind = "object" /\ Len(stateFile.copied) >= 2
  /\ load_state(stateFile, TRUE).paths = copied_paths

\* C7 as claimed: whenever no run is in progress (a run has completed,
\* failed or been interrupted, also inside save_state), the state file is
\* what it was before the first run or a complete JSON document written by
\* save_state.
C7_StateFileNeverTorn ==
  pc = "idle" => (stateFile \in InitialStateFiles \/ stateFile.kind = "object")

\* C8 as claimed: with resume active, no failed step and a target root
\* that was empty when the run started, at every point of the scan the set of completed copies (the copied set, plus the file just
\* copied and verified) differs from the set the state file holds by at
\* most one path (the set the state file holds is what load_state reads).
Completed == copied_paths \cup (IF pc = "record" THEN {cur} ELSE {})
Persisted == load_state(stateFile, TRUE).paths
SymDiff(A, B) == (A \ B) \cup (B \ A)

C8_CrashLosesAtMostOne ==
  (resume /\ fresh /\ pc \notin {"idle", "load"} /\ ~faults)
    => Cardinality(SymDiff(Completed, Persisted)) <= 1

\* C9 as claimed: whatever the state file holds, loading it never ends the
\* run (only an interrupt does), and a file that is not a JSON object with
\* a "copied" array yields the empty set.
C9_LoadNeverBlocks ==
  [][pc = "load"
       => \/ exit_code' = ExitInterrupted
          \/ /\ pc' = "scan"
             /\ (stateFile.kind # "object" => copied_paths' = {})]_vars

\* C10 as claimed: a failed metadata read while a file is examined never
\* ends the run: from the suspicion check the run goes on to the copy or to
\* the next file, unless it is interrupted.
C10_MetadataNeverFatal ==
  [][pc = "suspicious" => (pc' # "idle" \/ exit_code' = ExitInterrupted)]_vars

\* the documented form of a date argument, 'YYYY-MM-DD HH:MM:SS': of the
\* arguments explored only the first of November at midnight has it, and it
\* names the instant 304 days into its year
WellFormedDate(d) == d.rest = "-11-01 00:00:00"
DateValue(d) == YearStart(d.year) + Days(304)
\* a start and an end in the documented form, with start <= end
ValidRange(r) ==
  /\ WellFormedDate(r[1]) /\ WellFormedDate(r[2])
  /\ DateValue(r[1]) <= DateValue(r[2])
\* the step is main() running lines 230-313
SetupStep == pc = "idle" /\ run' = run + 1

\* C11 as claimed: setup leaves the target root, the state file and the
\* archive alone, and a run gets past setup only with start_dt <= end_dt
\* and, when it read an explicit range, only if that range is a valid one;
\* with an invalid one it has exited before the scan.
C11_SetupFailuresFatal ==
  [][SetupStep
       => /\ UNCHANGED <<dst, stateFile, archive>>
          /\ copy_log' = {} /\ copied_count' = 0
          /\ (pc' # "idle"
                => /\ start_dt' <= end_dt'
                   /\ (cli_range' = NoRange \/ ValidRange(cli_range')))]_vars

\* C12 as claimed: a command line with a valid explicit range can get past
\* setup (only the target directory can still stop it), and the scan then
\* uses exactly that window; the relative window, ending now, is used only
\* when no explicit pair was read.
C12_ExplicitRangeUsable ==
  /\ ValidRange(cli_range)
       => /\ \E o \in SetupOutcomes[now] :
               o.range = cli_range /\ o.exit = NotExited
          /\ (pc # "idle"
                => /\ start_dt = DateValue(cli_range[1])
                   /\ end_dt = DateValue(cli_range[2]))
  /\ (pc # "idle" /\ end_dt = now /\ start_dt < now) => cli_range = NoRange

\* C13 as claimed: a run that has begun its scan ends only by an interrupt
\* or by the archive step, whatever failed for a file; so no uninterrupted
\* run ends before it has archived.
C13_ArchiveAlwaysReached ==
  [][(pc \notin {"idle", "load"} /\ pc' = "idle")
       => (exit_code' = ExitInterrupted \/ pc = "archive")]_vars

\* C14 as claimed: when main() returns from the archive step, with the
\* archive built or not, the files under the target root and the state file
\* are as they were and the summary with the counters has been printed.
C14_ArchiveFailureContained ==
  [][(pc = "archive" /\ pc' = "idle" /\ exit_code' = 0)
       => (UNCHANGED <<dst, stateFile>> /\ reported')]_vars

\* ------------------------------------------------- the timestamp functions
\* stat records that reach every branch of is_suspicious_timestamp: seven
\* minutes ahead of the clock, at the edge of the allowed skew, in 1999, at
\* the start of 2000, and with only the birth time apart from the others
FutureStat ==
  [st_mtime |-> Now0 + SkewMinutes + 2, st_ctime |-> Now0 + SkewMinutes + 1,
   st_birthtime |-> Now0 + SkewMinutes + 1]
SkewStat ==
  [st_mtime |-> Now0 + SkewMinutes, st_ctime |-> Now0 + SkewMinutes - 1,
   st_birthtime |-> Now0 + SkewMinutes]
Stat1999 ==
  [st_mtime |-> YearStart(MinYear) - 1, st_ctime |-> YearStart(MinYear) - 2,
   st_birthtime |-> YearStart(MinYear) - 2]
Stat2000 ==
  [st_mtime |-> YearStart(MinYear) + 1, st_ctime |-> YearStart(MinYear),
   st_birthtime |-> YearStart(MinYear)]
BirthApartStat ==
  [st_mtime |-> Now0 - Days(1), st_ctime |-> Now0 - Days(1),
   st_birthtime |-> Now0 - Days(2)]
WideStats == {FutureStat, SkewStat, Stat1999, Stat2000, BirthApartStat}

\* behaviours over such files: one of them beside a file written just
\* before the first run, on every host, with an empty target root
InitStamps ==
  /\ platform \in Platforms
  /\ \E st \in WideStats :
       srcStat = [f \in Paths |-> IF f = 1 THEN st ELSE FreshStat]
  /\ stateFile = Absent
  /\ InitRun
  /\ prev = NoHistory

SpecStamps == InitStamps /\ [][Next]_vars

\* C15: whenever the suspicion check of a file completes, the file is
\* counted as suspicious exactly if its resolved timestamp is more than five
\* minutes after now, or its modification and change times (and its birth
\* time where the host exposes one) are all equal, or the year of its
\* resolved timestamp is before 2000 or after next year.
FieldsEqual(st) ==
  /\ st.st_mtime = st.st_ctime
  /\ (platform.has_birthtime => st.st_birthtime = st.st_mtime)
Flagged(f) ==
  \/ Resolved(f) - now > SkewMinutes
  \/ FieldsEqual(srcStat[f])
  \/ Resolved(f) < YearStart(MinYear)
  \/ Resolved(f) >= YearStart(Year(now) + 2)

C15_SuspicionDetection ==
  [][(pc = "suspicious" /\ pc' # "idle")
       => suspicious_count' =
            suspicious_count + (IF Flagged(cur) THEN 1 ELSE 0)]_vars

\* both files have been checked: the one seven minutes ahead was flagged,
\* the recent one with fields apart was not
C15_Witness ==
  /\ pc = "archive" /\ suspicious_count = 1 /\ ~faults
  /\ srcStat[1] = FutureStat /\ Flagged(1)
  /\ srcStat[2] = FreshStat /\ ~Flagged(2)

\* C16 as claimed: an interrupt ends the run with status 130 and without
\* archiving, and never while shutil.copy2 or save_state is part-way
\* through its write, so that it leaves no partly written file.
C16_InterruptAfterOperation ==
  [][(pc # "idle" /\ exit_code' = ExitInterrupted)
       => /\ pc' = "idle" /\ UNCHANGED archive
          /\ pc \notin {"copying", "save_write", "final_write"}
          /\ (cur # NoFile => dst'[cur] # "partial")
          /\ stateFile'.kind \notin {"empty", "partial"}]_vars

\* C17: in every step of a scan, a path enters the copied set only as the
\* current file, after its "Copied" line, with the destination equal to the
\* source and, under --verify, counted as verified; and whenever the state
\* file is written, every path added in this run has such a destination and
\* the file lists only paths of the copied set.
AddedThisRun == copied_paths \cap copy_log

C17_RecordAfterComplete ==
  [][(pc \notin {"idle", "load"} /\ pc' # "idle")
       => /\ \A p \in copied_paths' \ copied_paths :
               /\ pc = "record" /\ p = cur /\ p \in copy_log
               /\ dst[p] = SrcContent
          /\ (verify => Cardinality(AddedThisRun') <= verified_count')
          /\ (stateFile' # stateFile
                => /\ \A p \in AddedThisRun' : dst'[p] = SrcContent
                   /\ Ledger(stateFile') \subseteq copied_paths')]_vars

\* under --resume --verify a file was copied, verified and recorded, and
\* another, whose copy was corrupted, was removed and is not in the ledger
C17_Witness ==
  /\ pc = "archive" /\ resume /\ verify /\ run = 1
  /\ \E p, q \in Paths :
       /\ p \in AddedThisRun /\ p \in Ledger(stateFile) /\ dst[p] = SrcContent
       /\ q \in copy_log /\ q \notin copied_paths /\ q \notin Ledger(stateFile)
       /\ dst[q] = "absent"
  /\ verified_count = 1

\* C18: while a file is between its suspicion check and the end of its
\* copy, every step other than the completion of the copy leaves
\* copied_count, verified_count, the copied set and the state file as they
\* were; a failed os.makedirs or a failed copy is such a step, and it ends
\* the iteration with the scan going on over the files still to come.
MkdirFailed == pc = "suspicious" /\ pc' = "scan" /\ ~StrictlyOutside(cur)
CopyFailed == pc \in {"copy", "copying"} /\ pc' = "scan" /\ cur \notin copy_log'

C18_CopyFailureChangesNothing ==
  [][/\ (pc \in {"suspicious", "copy", "copying"} /\ pc' # "idle"
           /\ copy_log' = copy_log)
          => UNCHANGED <<copied_count, verified_count, copied_paths, stateFile>>
     /\ (MkdirFailed \/ CopyFailed)
          => (cur' = NoFile /\ todo' = todo /\ cur \notin todo)]_vars

\* in a first run with --resume a copy has failed part-way: nothing is
\* counted or recorded, and the scan goes on with a file still to come
C18_Witness ==
  /\ pc = "scan" /\ run = 1 /\ resume /\ todo # {}
  /\ copied_count = 0 /\ verified_count = 0
  /\ copied_paths = {} /\ stateFile = Absent
  /\ \E f \in Paths \ todo : dst[f] = "partial"

\* C19: after the suspicion check a file goes on to the copy exactly if its
\* resolved timestamp is inside the window (a failed os.makedirs apart),
\* flagged or not; and when the scan ends without a failed step,
\* suspicious_count is the number of flagged files among those not skipped
\* as already copied, inside the window or outside.
SkippedAsCopied == copied_paths \ copy_log

C19_SuspicionOnlyAnnotates ==
  [][/\ (pc = "suspicious" /\ pc' # "idle")
          => /\ (pc' = "copy" => ~StrictlyOutside(cur))
             /\ (~StrictlyOutside(cur) /\ ~faults' => pc' = "copy")
     /\ (pc' = "archive" /\ ~faults')
          => suspicious_count' =
               Cardinality({f \in Paths \ SkippedAsCopied' : Flagged(f)})]_vars

\* the scan has ended with two files flagged: one inside the window, which
\* was copied, and one outside, which was not
C19_Witness ==
  /\ pc = "archive" /\ ~faults /\ suspicious_count = 2
  /\ \E f, g \in Paths :
       /\ Flagged(f) /\ ~StrictlyOutside(f)
       /\ f \in copy_log /\ dst[f] = SrcContent
       /\ Flagged(g) /\ StrictlyOutside(g) /\ dst[g] = "absent"

\* C20 as claimed: get_timestamp returns the birth time where the host
\* exposes one, else the change time (every host has that field), and the
\* modification time only when neither is there.
C20_ChangeTimeBeforeModification ==
  [][(pc = "scan" /\ pc' = "suspicious")
       => file_time' = IF platform.has_birthtime
                       THEN srcStat[cur'].st_birthtime
                       ELSE srcStat[cur'].st_ctime]_vars

\* C20 as amended: the birth time where the host exposes one, else st_ctime
\* on Windows (os.name = "nt"), else the modification time.
C20_TimestampRanking ==
  [][(pc = "scan" /\ pc' = "suspicious")
       => file_time' = IF platform.has_birthtime
                       THEN srcStat[cur'].st_birthtime
                       ELSE IF platform.os_name = "nt"
                       THEN srcStat[cur'].st_ctime
                       ELSE srcStat[cur'].st_mtime]_vars

\* on Windows without birth time a file whose change time differs from its
\* modification time has been resolved to the change time
C20_Witness ==
  /\ pc = "suspicious"
  /\ ~platform.has_birthtime /\ platform.os_name = "nt"
  /\ srcStat[cur].st_ctime # srcStat[cur].st_mtime
  /\ file_time = srcStat[cur].st_ctime

\* C21 as claimed: main() ends the process during setup only because a
\* parameter failed validation (by the parser or by main's own checks), and
\* then the exit status is not 0.
C21_ValidationFailureNonZero ==
  [][(SetupStep /\ pc' = "idle") => exit_code' # 0]_vars

\* C22 as claimed: with --resume, whenever the scan is between two files
\* or past the last one, copied_count is the number of paths in the copied
\* set.
C22_CountIsLedgerSize ==
  (resume /\ pc \in {"scan", "final_write", "archive"})
    => copied_count = Cardinality(copied_paths)

\* C23: a run without --resume never changes the state file, keeps the
\* copied set empty, and starts its scan whatever the state file holds,
\* without a warning about it.
C23_NoResumeNoLedger ==
  [][(pc # "idle" /\ ~resume)
       => /\ stateFile' = stateFile
          /\ copied_paths' = {}
          /\ pc' \notin {"record", "save_write", "final_write"}
          /\ (pc = "load"
                => \/ exit_code' = ExitInterrupted
                   \/ pc' = "scan" /\ ~faults')]_vars

\* a first run without --resume has copied a file and finished its scan
\* beside a state file that is not a JSON object, which is still there
C23_Witness ==
  /\ pc = "archive" /\ ~resume /\ run = 1 /\ ~faults
  /\ copy_log # {} /\ copied_paths = {}
  /\ stateFile = StateDoc("array", <<>>)

====
